---- MODULE Spec2Model ----
(***************************************************************************)
(* wakeci backend: the life of one build (src/backend/build.go) and the    *)
(* HTTP abort handler.  One build is followed from CreateBuild through the *)
(* queue, Start, the hook tasks run on every status change, the task       *)
(* runner with its abort channel, the timeout timer, and the broadcast /   *)
(* history-store pair written by BroadcastUpdate.                          *)
(* Spec follows one build; SpecFactory follows several calls of           *)
(* CreateBuild and the GET handler HandleGetBuild; SpecLog follows one     *)
(* runTask line by line.                                                   *)
(***************************************************************************)
EXTENDS Integers, Sequences, FiniteSets, TLC

\* ---------------------------------------------------------------- bounds
MaxTasks == 2      \* tasks declared by the job
MaxAborts == 1     \* callers of Queue.Abort blocked at one time
MaxDbFail == 1     \* failing history-store transactions
MaxArtifacts == 1  \* files copied by CollectArtifacts
MaxCalls == 3      \* calls of CreateBuild in one process lifetime
MaxLines == 3      \* lines a task's command writes

\* ------------------------------------------------------- program constants
StatusRunning == "running"
StatusFailed == "failed"
StatusFinished == "finished"
StatusPending == "pending"
StatusAborted == "aborted"
KindMain == "main"
NoStatus == ""

Terminal == {StatusFinished, StatusFailed, StatusAborted}
Kinds == {KindMain, StatusPending, StatusRunning, StatusFinished, StatusFailed, StatusAborted}
Timeouts == {"", "soon", "1s"}

\* time.ParseDuration: err # nil for a string that is no duration
ParseDurationErr(s) == s \notin {"1s"}

\* the two threads of control of a build: the thread running CreateBuild,
\* Start or a queued Abort, and the goroutine of the pending hook tasks
BuildThread == "build"
HookThread == "pendingHook"
Threads == {BuildThread, HookThread}

NoRecord == [ID |-> 0]
NoBytes == <<>>
NoResponse == [code |-> 0]
NoStream == [buf |-> <<>>, closed |-> TRUE, isNil |-> TRUE]

VARIABLES
    Job,            \* [Tasks: seq of Task, Timeout: string]
    cmds,           \* per task: taskCmd of its runTask [proc, gotAbort]
    Status, aborted, StartedAt, Duration, Artifacts,
    timer,          \* b.timer and its goroutine
    pendingTasksWG, \* counter of b.pendingTasksWG
    pc, arg, cont, idx, cur, caller,
    result,         \* per thread: the status its last runTask returned
    inQ,            \* where the Queue holds the build
    sending,        \* callers of Queue.Abort blocked in abortedChannel <- true
    now,            \* per thread: the clock it reads, later at every reading
    history,        \* HistoryBucket record of the build
    lastMsg,        \* BroadcastUpdate's data: the last build:update message sent
    statusLog, bcastLog, writeLog, dbFails,
    firedDuring,    \* the main task whose command ran when the timer fired, or 0
    qCalls,         \* the calls Cleanup has made on the Queue, in order
    \* CreateBuild called by several callers, and HandleGetBuild
    count,          \* GlobalBucket key "count": <<>> when absent, else its digits
    calls,          \* per caller of CreateBuild: [pc, ID, step, err, build]
    configFiles,    \* IDs whose wakespace holds the copy of the job file
    pendingBuilds,  \* IDs of the builds set pending
    hooksLaunched,  \* IDs whose goroutine of pending hook tasks was started
    updatesSent,    \* IDs a build:update message was sent for
    historyKeys,    \* IDs the HistoryBucket holds a record for
    resp,           \* the last response of HandleGetBuild
    \* one runTask with the lines of its command
    emit,           \* the streams the command writes its lines to, in order
    emitted,        \* how many of them it has written
    Stdout, Stderr, \* taskCmd.Stdout, taskCmd.Stderr: [buf, closed, isNil]
    bw, file,       \* the bufio.Writer of the task log and the file behind it
    logMsgs,        \* the build:log messages sent
    taskProc,       \* the command: "run", "exit" or "stopped"
    abortSend,      \* a caller of Queue.Abort: "none", "sending" or "received"
    rtpc            \* where runTask is: "loop", "done" or "returned"

buildVars == <<Status, aborted, StartedAt, Duration, Artifacts>>
ctlVars == <<pc, arg, cont, idx, cur, caller, result>>
queueVars == <<inQ, sending>>
storeVars == <<history, lastMsg, bcastLog, writeLog, dbFails>>
ghostVars == <<firedDuring, qCalls>>
mainVars == <<Job, cmds, buildVars, timer, pendingTasksWG, ctlVars, queueVars, now,
              storeVars, statusLog, ghostVars>>
factoryVars == <<count, calls, configFiles, pendingBuilds, hooksLaunched, updatesSent,
                 historyKeys, resp>>
logVars == <<emit, emitted, Stdout, Stderr, bw, file, logMsgs, taskProc, abortSend, rtpc>>
vars == <<Job, cmds, buildVars, timer, pendingTasksWG, ctlVars, queueVars, now,
          storeVars, statusLog, ghostVars, factoryVars, logVars>>

\* ----------------------------------------------------------------- helpers
Task(k) == [Kind |-> k, Status |-> NoStatus, startedAt |-> 0, duration |-> 0]
NoCmd == [proc |-> "none", gotAbort |-> FALSE]

SeqsUpTo(S, n) == UNION {[1..m -> S] : m \in 0..n}

NTasks == Len(Job.Tasks)

\* first task at or after position from whose Kind is kind; 0 when there is none
NextOfKind(from, kind) ==
    LET S == {i \in from..NTasks : Job.Tasks[i].Kind = kind}
    IN IF S = {} THEN 0 ELSE CHOOSE i \in S : \A j \in S : i <= j

GetTasksStatus ==
    [i \in 1..NTasks |->
        [Status |-> Job.Tasks[i].Status, StartedAt |-> Job.Tasks[i].startedAt,
         Duration |-> Job.Tasks[i].duration, Kind |-> Job.Tasks[i].Kind]]

GenerateBuildUpdateData ==
    [ID |-> 1, Status |-> Status, Tasks |-> GetTasksStatus, Artifacts |-> Artifacts,
     StartedAt |-> StartedAt, Duration |-> Duration]

\* json.Marshal(data): the values of the fields in the order of declaration
Marshal(d) == <<d.ID, d.Status, d.Tasks, d.Artifacts, d.StartedAt, d.Duration>>

\* json.Unmarshal(ud, &buildStatusData)
Unmarshal(b) ==
    [ID |-> b[1], Status |-> b[2], Tasks |-> b[3], Artifacts |-> b[4],
     StartedAt |-> b[5], Duration |-> b[6]]

\* b.Get(Itob(buildID)) read back: no record when ud == nil
ReadBack == IF history = NoBytes THEN NoRecord ELSE Unmarshal(history)

\* ------------------------------------------------------------------- Init
\* no CreateBuild is being followed call by call, no request is answered
FactoryIdle ==
    /\ count = <<>>
    /\ calls = <<>>
    /\ configFiles = {}
    /\ pendingBuilds = {}
    /\ hooksLaunched = {}
    /\ updatesSent = {}
    /\ historyKeys = {}
    /\ resp = NoResponse

\* no runTask is being followed line by line
LogIdle ==
    /\ emit = <<>>
    /\ emitted = 0
    /\ Stdout = NoStream
    /\ Stderr = NoStream
    /\ bw = <<>>
    /\ file = <<>>
    /\ logMsgs = <<>>
    /\ taskProc = "none"
    /\ abortSend = "none"
    /\ rtpc = "none"

\* no build is being followed through its life
MainIdle ==
    /\ Job = [Tasks |-> <<>>, Timeout |-> ""]
    /\ cmds = <<>>
    /\ Status = NoStatus
    /\ aborted = FALSE
    /\ StartedAt = 0
    /\ Duration = 0
    /\ Artifacts = 0
    /\ timer = "nil"
    /\ pendingTasksWG = 0
    /\ pc = [t \in Threads |-> "idle"]
    /\ arg = NoStatus
    /\ cont = "none"
    /\ idx = [t \in Threads |-> 1]
    /\ cur = [t \in Threads |-> 0]
    /\ caller = "hook"
    /\ result = [t \in Threads |-> NoStatus]
    /\ inQ = "none"
    /\ sending = 0
    /\ now = [t \in Threads |-> 1]
    /\ history = NoBytes
    /\ lastMsg = NoRecord
    /\ statusLog = <<>>
    /\ bcastLog = <<>>
    /\ writeLog = <<>>
    /\ dbFails = 0
    /\ firedDuring = 0
    /\ qCalls = <<>>

Init ==
    /\ Job \in {[Tasks |-> [i \in DOMAIN ks |-> Task(ks[i])], Timeout |-> t] :
                   ks \in SeqsUpTo(Kinds, MaxTasks), t \in Timeouts}
    /\ cmds = [i \in 1..NTasks |-> NoCmd]
    /\ Status = NoStatus
    /\ aborted = FALSE
    /\ StartedAt = 0
    /\ Duration = 0
    /\ Artifacts = 0
    /\ timer = "nil"
    /\ pendingTasksWG = 0
    /\ pc = [t \in Threads |-> IF t = BuildThread THEN "create" ELSE "idle"]
    /\ arg = NoStatus
    /\ cont = "none"
    /\ idx = [t \in Threads |-> 1]
    /\ cur = [t \in Threads |-> 0]
    /\ caller = "hook"
    /\ result = [t \in Threads |-> NoStatus]
    /\ inQ = "none"
    /\ sending = 0
    /\ now = [t \in Threads |-> 1]
    /\ history = NoBytes
    /\ lastMsg = NoRecord
    /\ statusLog = <<>>
    /\ bcastLog = <<>>
    /\ writeLog = <<>>
    /\ dbFails = 0
    /\ firedDuring = 0
    /\ qCalls = <<>>
    /\ FactoryIdle
    /\ LogIdle

\* ------------------------------------------------------------- CreateBuild
\* ID allocation and the filesystem steps; on success the build enters
\* SetBuildStatus(StatusPending), on any error no Build is returned
CreateBuild ==
    /\ pc[BuildThread] = "create"
    /\ \E ok \in BOOLEAN :
         IF ok
         THEN /\ pc' = [pc EXCEPT ![BuildThread] = "sbs"]
              /\ arg' = StatusPending
              /\ cont' = "created"
         ELSE /\ pc' = [pc EXCEPT ![BuildThread] = "nobuild"]
              /\ UNCHANGED <<arg, cont>>
    /\ UNCHANGED <<Job, cmds, buildVars, timer, pendingTasksWG, idx, cur, caller, result,
                   queueVars, now, storeVars, statusLog>>
    /\ UNCHANGED <<ghostVars, factoryVars, logVars>>

\* ---------------------------------------------------------- SetBuildStatus
\* b.Status = status; the deferred BroadcastUpdate runs when the call returns
SetBuildStatus ==
    /\ pc[BuildThread] = "sbs"
    /\ Status' = arg
    /\ statusLog' = Append(statusLog, arg)
    /\ pc' = [pc EXCEPT ![BuildThread] = "wait"]
    /\ UNCHANGED <<Job, cmds, aborted, StartedAt, Duration, Artifacts, timer,
                   pendingTasksWG, arg, cont, idx, cur, caller, result, queueVars, now, storeVars>>
    /\ UNCHANGED <<ghostVars, factoryVars, logVars>>

\* CollectArtifacts: the number of files copied into the artifacts directory
CollectArtifacts(n) == Artifacts + n

\* a switch on status whose every terminal case calls CollectArtifacts
PendingTasksWait_CollectAlways ==
    /\ pc[BuildThread] = "wait"
    /\ pendingTasksWG = 0
    /\ CASE arg = StatusPending ->
              \* go b.runOnStatusTasks(status)
              /\ pc' = [pc EXCEPT ![BuildThread] = "bu", ![HookThread] = "spawned"]
              /\ UNCHANGED <<StartedAt, now, timer, Artifacts, idx>>
         [] arg = StatusRunning ->
              /\ StartedAt' = now[BuildThread]
              /\ now' = [now EXCEPT ![BuildThread] = @ + 1]
              /\ timer' = IF Job.Timeout # "" /\ ~ParseDurationErr(Job.Timeout)
                          THEN "armed" ELSE timer
              /\ pc' = [pc EXCEPT ![BuildThread] = "hooks"]
              /\ idx' = [idx EXCEPT ![BuildThread] = 1]
              /\ UNCHANGED Artifacts
         [] arg \in Terminal ->
              /\ \E n \in 0..MaxArtifacts : Artifacts' = CollectArtifacts(n)
              /\ pc' = [pc EXCEPT ![BuildThread] = "hooks"]
              /\ idx' = [idx EXCEPT ![BuildThread] = 1]
              /\ UNCHANGED <<StartedAt, now, timer>>
         [] OTHER ->
              /\ pc' = [pc EXCEPT ![BuildThread] = "hooks"]
              /\ idx' = [idx EXCEPT ![BuildThread] = 1]
              /\ UNCHANGED <<StartedAt, now, timer, Artifacts>>
    /\ UNCHANGED <<Job, cmds, Status, aborted, Duration, pendingTasksWG, arg, cont,
                   cur, caller, result, queueVars, storeVars, statusLog>>
    /\ UNCHANGED <<ghostVars, factoryVars, logVars>>

\* b.pendingTasksWG.Wait() and the head of the switch on status
PendingTasksWait ==
    /\ pc[BuildThread] = "wait"
    /\ pendingTasksWG = 0
    /\ CASE arg = StatusPending ->
              \* go b.runOnStatusTasks(status)
              /\ pc' = [pc EXCEPT ![BuildThread] = "bu", ![HookThread] = "spawned"]
              /\ UNCHANGED <<StartedAt, now, timer, Artifacts, idx>>
         [] arg = StatusRunning ->
              /\ StartedAt' = now[BuildThread]
              /\ now' = [now EXCEPT ![BuildThread] = @ + 1]
              /\ timer' = IF Job.Timeout # "" /\ ~ParseDurationErr(Job.Timeout)
                          THEN "armed" ELSE timer
              /\ pc' = [pc EXCEPT ![BuildThread] = "hooks"]
              /\ idx' = [idx EXCEPT ![BuildThread] = 1]
              /\ UNCHANGED Artifacts
         [] arg = StatusFinished ->
              /\ \E n \in 0..MaxArtifacts : Artifacts' = CollectArtifacts(n)
              /\ pc' = [pc EXCEPT ![BuildThread] = "hooks"]
              /\ idx' = [idx EXCEPT ![BuildThread] = 1]
              /\ UNCHANGED <<StartedAt, now, timer>>
         [] OTHER ->
              /\ pc' = [pc EXCEPT ![BuildThread] = "hooks"]
              /\ idx' = [idx EXCEPT ![BuildThread] = 1]
              /\ UNCHANGED <<StartedAt, now, timer, Artifacts>>
    /\ UNCHANGED <<Job, cmds, Status, aborted, Duration, pendingTasksWG, arg, cont,
                   cur, caller, result, queueVars, storeVars, statusLog>>
    /\ UNCHANGED <<ghostVars, factoryVars, logVars>>

\* Cleanup: stop the timer, Q.Remove(b.ID), Q.Take()
CleanupTimer == IF timer = "armed" THEN "stopped" ELSE timer
CleanupQueue == IF inQ = "running" THEN "removed" ELSE inQ
Cleanup_NoTake == qCalls \o <<"Remove">>
Cleanup == qCalls \o <<"Remove", "Take">>

\* a terminal case that leaves b.Duration alone
SetBuildStatusTerminal_NoDuration ==
    /\ pc[BuildThread] = "post"
    /\ timer' = CleanupTimer
    /\ inQ' = CleanupQueue
    /\ pc' = [pc EXCEPT ![BuildThread] = "bu"]
    /\ UNCHANGED <<Job, cmds, Status, aborted, StartedAt, Duration, Artifacts, pendingTasksWG,
                   arg, cont, idx, cur, caller, result, sending, now, storeVars, statusLog>>
    /\ qCalls' = Cleanup
    /\ UNCHANGED <<firedDuring, factoryVars, logVars>>

\* the tail of a terminal case: b.Duration = time.Since(b.StartedAt); b.Cleanup()
SetBuildStatusTerminal ==
    /\ pc[BuildThread] = "post"
    /\ Duration' = now[BuildThread] - StartedAt
    /\ now' = [now EXCEPT ![BuildThread] = @ + 1]
    /\ timer' = CleanupTimer
    /\ inQ' = CleanupQueue
    /\ pc' = [pc EXCEPT ![BuildThread] = "bu"]
    /\ UNCHANGED <<Job, cmds, Status, aborted, StartedAt, Artifacts, pendingTasksWG,
                   arg, cont, idx, cur, caller, result, sending, storeVars, statusLog>>
    /\ qCalls' = Cleanup
    /\ UNCHANGED <<firedDuring, factoryVars, logVars>>

\* -------------------------------------------------------- runOnStatusTasks
\* the goroutine started by SetBuildStatus(StatusPending): pendingTasksWG.Add(1)
GoRunOnStatusTasks ==
    /\ pc[HookThread] = "spawned"
    /\ pendingTasksWG' = pendingTasksWG + 1
    /\ pc' = [pc EXCEPT ![HookThread] = "hooks"]
    /\ idx' = [idx EXCEPT ![HookThread] = 1]
    /\ UNCHANGED <<Job, cmds, buildVars, timer, arg, cont, cur, caller, result, queueVars,
                   now, storeVars, statusLog>>
    /\ UNCHANGED <<ghostVars, factoryVars, logVars>>

HookKind(t) == IF t = HookThread THEN StatusPending ELSE arg

\* one turn of the loop over b.Job.Tasks: the next task of the status' kind
\* is set running, or the loop ends
RunOnStatusTasks(t) ==
    /\ pc[t] = "hooks"
    /\ LET i == NextOfKind(idx[t], HookKind(t)) IN
         IF i = 0
         THEN /\ IF t = HookThread
                 THEN /\ pendingTasksWG' = pendingTasksWG - 1
                      /\ pc' = [pc EXCEPT ![t] = "done"]
                 ELSE /\ pc' = [pc EXCEPT ![t] = IF arg = StatusRunning THEN "bu" ELSE "post"]
                      /\ UNCHANGED pendingTasksWG
              /\ idx' = [idx EXCEPT ![t] = 1]
              /\ UNCHANGED <<Job, cmds, now, cur, caller>>
         ELSE /\ Job' = [Job EXCEPT !.Tasks[i].Status = StatusRunning,
                                    !.Tasks[i].startedAt = now[t]]
              /\ now' = [now EXCEPT ![t] = @ + 1]
              /\ cmds' = [cmds EXCEPT ![i] = NoCmd]
              /\ cur' = [cur EXCEPT ![t] = i]
              /\ caller' = IF t = BuildThread THEN "hook" ELSE caller
              /\ pc' = [pc EXCEPT ![t] = "rt_begin"]
              /\ UNCHANGED <<pendingTasksWG, idx>>
    /\ UNCHANGED <<buildVars, timer, arg, cont, result, queueVars, storeVars, statusLog>>
    /\ UNCHANGED <<ghostVars, factoryVars, logVars>>

\* ------------------------------------------------------------------ runTask
\* the task log file is created and the command started; a failing os.Create
\* returns StatusFailed at once
RunTaskBegin(t) ==
    /\ pc[t] = "rt_begin"
    /\ \E fileOk \in BOOLEAN :
         IF fileOk
         THEN /\ cmds' = [cmds EXCEPT ![cur[t]].proc = "run"]
              /\ pc' = [pc EXCEPT ![t] = "rt_loop"]
         ELSE /\ cmds' = [cmds EXCEPT ![cur[t]].proc = "nofile"]
              /\ pc' = [pc EXCEPT ![t] = "rt_ret"]
    /\ UNCHANGED <<Job, buildVars, timer, pendingTasksWG, arg, cont, idx, cur, caller, result,
                   queueVars, now, storeVars, statusLog>>
    /\ UNCHANGED <<ghostVars, factoryVars, logVars>>

\* case toAbort := <-b.abortedChannel: a blocked sender is released, the
\* command is stopped and b.aborted set
RunTaskAbort(t) ==
    /\ pc[t] = "rt_loop"
    /\ \E fromTimer \in BOOLEAN :
         IF fromTimer
         THEN /\ timer = "sending"
              /\ timer' = "done"
              /\ UNCHANGED sending
         ELSE /\ sending > 0
              /\ sending' = sending - 1
              /\ UNCHANGED timer
    /\ cmds' = [cmds EXCEPT ![cur[t]] =
                  [proc |-> IF @.proc = "run" THEN "killed" ELSE @.proc, gotAbort |-> TRUE]]
    /\ aborted' = TRUE
    /\ UNCHANGED <<Job, Status, StartedAt, Duration, Artifacts, pendingTasksWG, ctlVars,
                   inQ, now, storeVars, statusLog>>
    /\ UNCHANGED <<ghostVars, factoryVars, logVars>>

\* the command ends by itself with exit code 0 or not
CmdExit(t) ==
    /\ pc[t] = "rt_loop"
    /\ cmds[cur[t]].proc = "run"
    /\ \E code \in {"exit0", "exit1"} : cmds' = [cmds EXCEPT ![cur[t]].proc = code]
    /\ UNCHANGED <<Job, buildVars, timer, pendingTasksWG, ctlVars, queueVars, now,
                   storeVars, statusLog>>
    /\ UNCHANGED <<ghostVars, factoryVars, logVars>>

\* Stdout and Stderr are closed: the streaming goroutine ends, doneChan closes
RunTaskLoopEnd(t) ==
    /\ pc[t] = "rt_loop"
    /\ cmds[cur[t]].proc # "run"
    /\ pc' = [pc EXCEPT ![t] = "rt_ret"]
    /\ UNCHANGED <<Job, cmds, buildVars, timer, pendingTasksWG, arg, cont, idx, cur,
                   caller, result, queueVars, now, storeVars, statusLog>>
    /\ UNCHANGED <<ghostVars, factoryVars, logVars>>

\* the status runTask returns
RunTaskResult(c) ==
    IF c.proc = "nofile" THEN StatusFailed
    ELSE IF aborted THEN StatusAborted
    ELSE IF c.proc # "exit0" THEN StatusFailed
    ELSE StatusFinished

\* runTask's status is kept in the local variable but not stored in the task
RunTaskReturn_NoStatus(t) ==
    /\ pc[t] = "rt_ret"
    /\ result' = [result EXCEPT ![t] = RunTaskResult(cmds[cur[t]])]
    /\ pc' = [pc EXCEPT ![t] = "rt_dur"]
    /\ UNCHANGED <<Job, cmds, buildVars, timer, pendingTasksWG, arg, cont, idx, cur, caller,
                   queueVars, now, storeVars, statusLog>>
    /\ UNCHANGED <<ghostVars, factoryVars, logVars>>

\* status := b.runTask(task); task.Status = status
RunTaskReturn(t) ==
    /\ pc[t] = "rt_ret"
    /\ result' = [result EXCEPT ![t] = RunTaskResult(cmds[cur[t]])]
    /\ Job' = [Job EXCEPT !.Tasks[cur[t]].Status = RunTaskResult(cmds[cur[t]])]
    /\ pc' = [pc EXCEPT ![t] = "rt_dur"]
    /\ UNCHANGED <<cmds, buildVars, timer, pendingTasksWG, arg, cont, idx, cur, caller,
                   queueVars, now, storeVars, statusLog>>
    /\ UNCHANGED <<ghostVars, factoryVars, logVars>>

\* Start's switch without the return after SetBuildStatus(StatusFailed) and
\* SetBuildStatus(StatusAborted): the loop goes on to the next main task
StartSwitch_NoReturn(i) ==
    CASE result[BuildThread] = StatusFinished ->
           /\ pc' = [pc EXCEPT ![BuildThread] = "bu"]
           /\ cont' = "st_loop"
           /\ idx' = [idx EXCEPT ![BuildThread] = i + 1]
           /\ UNCHANGED arg
      [] OTHER ->
           /\ pc' = [pc EXCEPT ![BuildThread] = "sbs"]
           /\ arg' = result[BuildThread]
           /\ cont' = "st_loop"
           /\ idx' = [idx EXCEPT ![BuildThread] = i + 1]

\* Start's switch without the case StatusAborted: an aborted main task is
\* passed over like a finished one
StartSwitch_NoAbortedCase(i) ==
    CASE result[BuildThread] \in {StatusFinished, StatusAborted} ->
           /\ pc' = [pc EXCEPT ![BuildThread] = "bu"]
           /\ cont' = "st_loop"
           /\ idx' = [idx EXCEPT ![BuildThread] = i + 1]
           /\ UNCHANGED arg
      [] OTHER ->
           /\ pc' = [pc EXCEPT ![BuildThread] = "sbs"]
           /\ arg' = result[BuildThread]
           /\ cont' = "done"
           /\ UNCHANGED idx

\* Start's switch on the status of the main task i that has just ended
StartSwitch(i) ==
    CASE result[BuildThread] = StatusFinished ->
           /\ pc' = [pc EXCEPT ![BuildThread] = "bu"]
           /\ cont' = "st_loop"
           /\ idx' = [idx EXCEPT ![BuildThread] = i + 1]
           /\ UNCHANGED arg
      [] OTHER ->
           /\ pc' = [pc EXCEPT ![BuildThread] = "sbs"]
           /\ arg' = result[BuildThread]
           /\ cont' = "done"
           /\ UNCHANGED idx

\* task.duration = time.Since(task.startedAt), then on to the next task
TaskDuration(t) ==
    /\ pc[t] = "rt_dur"
    /\ Job' = [Job EXCEPT !.Tasks[cur[t]].duration = now[t] - Job.Tasks[cur[t]].startedAt]
    /\ now' = [now EXCEPT ![t] = @ + 1]
    /\ IF t = BuildThread /\ caller = "start"
       THEN StartSwitch(cur[t])
       ELSE /\ pc' = [pc EXCEPT ![t] = "hooks"]
            /\ idx' = [idx EXCEPT ![t] = cur[t] + 1]
            /\ UNCHANGED <<arg, cont>>
    /\ UNCHANGED <<cmds, buildVars, timer, pendingTasksWG, cur, caller, result, queueVars,
                   storeVars, statusLog>>
    /\ UNCHANGED <<ghostVars, factoryVars, logVars>>

\* ---------------------------------------------------------- BroadcastUpdate
\* data := b.GenerateBuildUpdateData(); BroadcastChannel <- &msg
BroadcastUpdate ==
    /\ pc[BuildThread] = "bu"
    /\ lastMsg' = GenerateBuildUpdateData
    /\ bcastLog' = Append(bcastLog, Status)
    /\ pc' = [pc EXCEPT ![BuildThread] = "bu_db"]
    /\ UNCHANGED <<Job, cmds, buildVars, timer, pendingTasksWG, arg, cont, idx, cur,
                   caller, result, queueVars, now, history, writeLog, dbFails, statusLog>>
    /\ UNCHANGED <<ghostVars, factoryVars, logVars>>

\* a DB.Update that marshals the build's data as they are at the time of the write
HistoryPut_Regenerate ==
    /\ pc[BuildThread] = "bu_db"
    /\ \E ok \in BOOLEAN :
         IF ok
         THEN /\ history' = Marshal(GenerateBuildUpdateData)
              /\ writeLog' = Append(writeLog, lastMsg.Status)
              /\ UNCHANGED dbFails
         ELSE /\ dbFails < MaxDbFail
              /\ dbFails' = dbFails + 1
              /\ UNCHANGED <<history, writeLog>>
    /\ pc' = [pc EXCEPT ![BuildThread] = cont]
    /\ UNCHANGED <<Job, cmds, buildVars, timer, pendingTasksWG, arg, cont, idx, cur,
                   caller, result, queueVars, now, lastMsg, bcastLog, statusLog>>
    /\ UNCHANGED <<ghostVars, factoryVars, logVars>>

\* DB.Update(... hb.Put(Itob(data.ID), dataB)): an error is logged and nothing stored
HistoryPut ==
    /\ pc[BuildThread] = "bu_db"
    /\ \E ok \in BOOLEAN :
         IF ok
         THEN /\ history' = Marshal(lastMsg)
              /\ writeLog' = Append(writeLog, lastMsg.Status)
              /\ UNCHANGED dbFails
         ELSE /\ dbFails < MaxDbFail
              /\ dbFails' = dbFails + 1
              /\ UNCHANGED <<history, writeLog>>
    /\ pc' = [pc EXCEPT ![BuildThread] = cont]
    /\ UNCHANGED <<Job, cmds, buildVars, timer, pendingTasksWG, arg, cont, idx, cur,
                   caller, result, queueVars, now, lastMsg, bcastLog, statusLog>>
    /\ UNCHANGED <<ghostVars, factoryVars, logVars>>

\* -------------------------------------------------------------------- Start
\* b.SetBuildStatus(StatusRunning)
Start ==
    /\ pc[BuildThread] = "start"
    /\ pc' = [pc EXCEPT ![BuildThread] = "sbs"]
    /\ arg' = StatusRunning
    /\ cont' = "st_loop"
    /\ idx' = [idx EXCEPT ![BuildThread] = 1]
    /\ UNCHANGED <<Job, cmds, buildVars, timer, pendingTasksWG, cur, caller, result, queueVars,
                   now, storeVars, statusLog>>
    /\ UNCHANGED <<ghostVars, factoryVars, logVars>>

\* Start's loop without the BroadcastUpdate that announces a running main task
StartLoop_NoBroadcast ==
    /\ pc[BuildThread] = "st_loop"
    /\ LET i == NextOfKind(idx[BuildThread], KindMain) IN
         IF i = 0
         THEN /\ pc' = [pc EXCEPT ![BuildThread] = "sbs"]
              /\ arg' = StatusFinished
              /\ cont' = "done"
              /\ UNCHANGED <<Job, cmds, now, cur, caller>>
         ELSE /\ Job' = [Job EXCEPT !.Tasks[i].Status = StatusRunning,
                                    !.Tasks[i].startedAt = now[BuildThread]]
              /\ now' = [now EXCEPT ![BuildThread] = @ + 1]
              /\ cmds' = [cmds EXCEPT ![i] = NoCmd]
              /\ cur' = [cur EXCEPT ![BuildThread] = i]
              /\ caller' = "start"
              /\ pc' = [pc EXCEPT ![BuildThread] = "rt_begin"]
              /\ UNCHANGED <<arg, cont>>
    /\ UNCHANGED <<buildVars, timer, pendingTasksWG, idx, result, queueVars, storeVars,
                   statusLog>>
    /\ UNCHANGED <<ghostVars, factoryVars, logVars>>

\* one turn of the loop over the main tasks: the next one is set running and
\* broadcast, or the loop ends and the build is set finished
StartLoop ==
    /\ pc[BuildThread] = "st_loop"
    /\ LET i == NextOfKind(idx[BuildThread], KindMain) IN
         IF i = 0
         THEN /\ pc' = [pc EXCEPT ![BuildThread] = "sbs"]
              /\ arg' = StatusFinished
              /\ cont' = "done"
              /\ UNCHANGED <<Job, cmds, now, cur, caller>>
         ELSE /\ Job' = [Job EXCEPT !.Tasks[i].Status = StatusRunning,
                                    !.Tasks[i].startedAt = now[BuildThread]]
              /\ now' = [now EXCEPT ![BuildThread] = @ + 1]
              /\ cmds' = [cmds EXCEPT ![i] = NoCmd]
              /\ cur' = [cur EXCEPT ![BuildThread] = i]
              /\ caller' = "start"
              /\ pc' = [pc EXCEPT ![BuildThread] = "bu"]
              /\ cont' = "rt_begin"
              /\ UNCHANGED arg
    /\ UNCHANGED <<buildVars, timer, pendingTasksWG, idx, result, queueVars, storeVars,
                   statusLog>>
    /\ UNCHANGED <<ghostVars, factoryVars, logVars>>

\* -------------------------------------------------------------------- Queue
\* Queue.Add: the created build is queued
QueueAdd ==
    /\ pc[BuildThread] = "created"
    /\ inQ = "none"
    /\ inQ' = "queued"
    /\ UNCHANGED <<Job, cmds, buildVars, timer, pendingTasksWG, ctlVars, sending,
                   now, storeVars, statusLog>>
    /\ UNCHANGED <<ghostVars, factoryVars, logVars>>

\* Queue.Take: the queued build joins the active set and go b.Start()
QueueTake ==
    /\ inQ = "queued"
    /\ pc[BuildThread] = "created"
    /\ inQ' = "running"
    /\ pc' = [pc EXCEPT ![BuildThread] = "start"]
    /\ UNCHANGED <<Job, cmds, buildVars, timer, pendingTasksWG, arg, cont, idx, cur,
                   caller, result, sending, now, storeVars, statusLog>>
    /\ UNCHANGED <<ghostVars, factoryVars, logVars>>

\* Queue.Abort: a queued build is taken out of the queue and set aborted by
\* the caller; for a running build true is sent on its abortedChannel, which
\* blocks until a runTask receives it; otherwise the build is not found
QueueAbort(fromTimer) ==
    CASE inQ = "queued" ->
           /\ inQ' = "aborted"
           /\ pc' = [pc EXCEPT ![BuildThread] = "sbs"]
           /\ arg' = StatusAborted
           /\ cont' = "done"
           /\ sending' = sending
           /\ timer' = IF fromTimer THEN "done" ELSE timer
      [] inQ = "running" ->
           /\ sending' = IF fromTimer THEN sending ELSE sending + 1
           /\ timer' = IF fromTimer THEN "sending" ELSE timer
           /\ UNCHANGED <<inQ, pc, arg, cont>>
      [] OTHER ->
           /\ timer' = IF fromTimer THEN "done" ELSE timer
           /\ UNCHANGED <<inQ, pc, arg, cont, sending>>

\* POST /build/{id}/abort
HandleAbortBuild ==
    /\ inQ = "running" => sending < MaxAborts
    /\ QueueAbort(FALSE)
    /\ UNCHANGED <<Job, cmds, buildVars, pendingTasksWG, idx, cur, caller, result, now,
                   storeVars, statusLog>>
    /\ UNCHANGED <<ghostVars, factoryVars, logVars>>

\* ---------------------------------------------------------- timeout timer
\* <-b.timer.C
TimerFire ==
    /\ timer = "armed"
    /\ timer' = "fired"
    /\ UNCHANGED <<Job, cmds, buildVars, pendingTasksWG, ctlVars, queueVars, now,
                   storeVars, statusLog>>
    /\ firedDuring' = IF pc[BuildThread] = "rt_loop" /\ caller = "start"
                           /\ cmds[cur[BuildThread]].proc = "run"
                      THEN cur[BuildThread] ELSE 0
    /\ UNCHANGED <<qCalls, factoryVars, logVars>>

\* err = Q.Abort(b.ID)
TimerAbort ==
    /\ timer = "fired"
    /\ QueueAbort(TRUE)
    /\ UNCHANGED <<Job, cmds, buildVars, pendingTasksWG, idx, cur, caller, result,
                   now, storeVars, statusLog>>
    /\ UNCHANGED <<ghostVars, factoryVars, logVars>>

\* --------------------------------------------------------------------- Next
Next ==
    \/ CreateBuild
    \/ SetBuildStatus
    \/ PendingTasksWait
    \/ SetBuildStatusTerminal
    \/ GoRunOnStatusTasks
    \/ \E t \in Threads : RunOnStatusTasks(t)
    \/ \E t \in Threads : RunTaskBegin(t)
    \/ \E t \in Threads : RunTaskAbort(t)
    \/ \E t \in Threads : CmdExit(t)
    \/ \E t \in Threads : RunTaskLoopEnd(t)
    \/ \E t \in Threads : RunTaskReturn(t)
    \/ \E t \in Threads : TaskDuration(t)
    \/ BroadcastUpdate
    \/ HistoryPut
    \/ Start
    \/ StartLoop
    \/ QueueAdd
    \/ QueueTake
    \/ HandleAbortBuild
    \/ TimerFire
    \/ TimerAbort

Spec == Init /\ [][Next]_vars

\* ============================================ CreateBuild, call by call
\* several callers of CreateBuild share the "count" key, the filesystem, the
\* broadcast channel and the HistoryBucket; HandleGetBuild reads the last two

Callers == 1..MaxCalls

\* strconv.Itoa: the decimal digits of n
RECURSIVE Itoa(_)
Itoa(n) == IF n < 10 THEN <<n>> ELSE Itoa(n \div 10) \o <<n % 10>>

\* a string of digits read as a number (ByteToInt, strconv.Atoi)
RECURSIVE ByteToInt(_)
ByteToInt(b) ==
    IF b = <<>> THEN 0 ELSE 10 * ByteToInt(SubSeq(b, 1, Len(b) - 1)) + b[Len(b)]

\* the filesystem steps of CreateBuild, in the order of the code
FsSteps == <<"MkdirAll workspace", "MkdirAll wakespace", "MkdirAll artifacts",
             "ReadFile jobPath", "WriteFile build config">>

NoErr == [op |-> "", id |-> 0]
NoBuild == [build |-> 0, err |-> NoErr]
NewCall == [pc |-> "count", ID |-> 0, step |-> 0, err |-> NoErr, ret |-> NoBuild]

InitFactory ==
    /\ MainIdle
    /\ LogIdle
    /\ count = <<>>
    /\ calls = [c \in Callers |-> NewCall]
    /\ configFiles = {}
    /\ pendingBuilds = {}
    /\ hooksLaunched = {}
    /\ updatesSent = {}
    /\ historyKeys = {}
    /\ resp = NoResponse

\* the transaction on GlobalBucket: the counter is read, incremented and put
\* back; a failing transaction stores nothing and CreateBuild returns its error.
\* bolt runs the transactions one at a time: the callers are numbered in
\* the order of their transactions
CreateBuildCount(c) ==
    /\ calls[c].pc = "count"
    /\ c > 1 => calls[c - 1].pc # "count"
    /\ \E txOk \in BOOLEAN :
         IF txOk
         THEN LET counti == IF count = <<>> THEN 1 ELSE ByteToInt(count) + 1 IN
              /\ count' = Itoa(counti)
              /\ calls' = [calls EXCEPT ![c] = [@ EXCEPT !.pc = "dirs", !.ID = counti,
                                                        !.step = 1]]
         ELSE /\ calls' = [calls EXCEPT ![c] =
                             [@ EXCEPT !.pc = "returned", !.err = [op |-> "DB.Update", id |-> 0],
                                       !.ret = [build |-> 0, err |-> [op |-> "DB.Update", id |-> 0]]]]
              /\ UNCHANGED count
    /\ UNCHANGED <<configFiles, pendingBuilds, hooksLaunched, updatesSent, historyKeys, resp>>
    /\ UNCHANGED <<mainVars, logVars>>

\* a filesystem step whose error is logged but not returned: the next step runs
CreateBuildDirs_IgnoreError(c) ==
    /\ calls[c].pc = "dirs"
    /\ LET k == calls[c].step
           last == k = Len(FsSteps) IN
       \E ok \in BOOLEAN :
         /\ calls' = [calls EXCEPT ![c] =
                        [@ EXCEPT !.pc = IF last THEN "pending" ELSE "dirs",
                                  !.step = IF last THEN k ELSE k + 1,
                                  !.err = IF ok THEN @ ELSE [op |-> FsSteps[k], id |-> calls[c].ID]]]
         /\ configFiles' = IF ok /\ last THEN configFiles \cup {calls[c].ID} ELSE configFiles
    /\ UNCHANGED <<count, pendingBuilds, hooksLaunched, updatesSent, historyKeys, resp>>
    /\ UNCHANGED <<mainVars, logVars>>

\* one filesystem step: on an error CreateBuild logs it and returns nil, err;
\* the last step writes the copy of the job file
CreateBuildDirs(c) ==
    /\ calls[c].pc = "dirs"
    /\ LET k == calls[c].step
           last == k = Len(FsSteps) IN
       \E ok \in BOOLEAN :
         IF ok
         THEN /\ calls' = [calls EXCEPT ![c] =
                             [@ EXCEPT !.pc = IF last THEN "pending" ELSE "dirs",
                                       !.step = IF last THEN k ELSE k + 1]]
              /\ configFiles' = IF last THEN configFiles \cup {calls[c].ID} ELSE configFiles
         ELSE /\ calls' = [calls EXCEPT ![c] =
                             [@ EXCEPT !.pc = "returned",
                                       !.err = [op |-> FsSteps[k], id |-> calls[c].ID],
                                       !.ret = [build |-> 0,
                                                err |-> [op |-> FsSteps[k], id |-> calls[c].ID]]]]
              /\ UNCHANGED configFiles
    /\ UNCHANGED <<count, pendingBuilds, hooksLaunched, updatesSent, historyKeys, resp>>
    /\ UNCHANGED <<mainVars, logVars>>

\* build.SetBuildStatus(StatusPending): the status is set and the goroutine of
\* the pending hook tasks started
CreateBuildPending(c) ==
    /\ calls[c].pc = "pending"
    /\ pendingBuilds' = pendingBuilds \cup {calls[c].ID}
    /\ hooksLaunched' = hooksLaunched \cup {calls[c].ID}
    /\ calls' = [calls EXCEPT ![c].pc = "update"]
    /\ UNCHANGED <<count, configFiles, updatesSent, historyKeys, resp>>
    /\ UNCHANGED <<mainVars, logVars>>

\* the deferred BroadcastUpdate: the build:update message is sent
CreateBuildUpdate(c) ==
    /\ calls[c].pc = "update"
    /\ updatesSent' = updatesSent \cup {calls[c].ID}
    /\ calls' = [calls EXCEPT ![c].pc = "store"]
    /\ UNCHANGED <<count, configFiles, pendingBuilds, hooksLaunched, historyKeys, resp>>
    /\ UNCHANGED <<mainVars, logVars>>

\* the record is put into the HistoryBucket unless the transaction fails;
\* return &build, nil
CreateBuildStore(c) ==
    /\ calls[c].pc = "store"
    /\ \E ok \in BOOLEAN :
         historyKeys' = IF ok THEN historyKeys \cup {calls[c].ID} ELSE historyKeys
    /\ calls' = [calls EXCEPT ![c] =
                   [@ EXCEPT !.pc = "returned", !.ret = [build |-> calls[c].ID, err |-> NoErr]]]
    /\ UNCHANGED <<count, configFiles, pendingBuilds, hooksLaunched, updatesSent, resp>>
    /\ UNCHANGED <<mainVars, logVars>>

\* ------------------------------------------------------------ HandleGetBuild
StatusOK == 200
StatusNotFound == 404
StatusInternalServerError == 500

\* the characters of the id parameter: a digit, or NotDigit for any other
NotDigit == 10
IdParams == {<<NotDigit>>} \cup {Itoa(n) : n \in 1..(MaxCalls + 1)}

\* strconv.Atoi(idp) returns an error
AtoiErr(idp) == idp = <<>> \/ \E i \in DOMAIN idp : idp[i] > 9

\* the error of the DB.View closure: fmt.Errorf("not found") when ud == nil
ViewErr(hasRecord) == IF hasRecord THEN "" ELSE "not found"

\* the status code HandleGetBuild writes
HandleGetBuildCode(idp, hasConfig, hasRecord) ==
    IF AtoiErr(idp) THEN StatusInternalServerError
    ELSE IF ~hasConfig THEN StatusInternalServerError
    ELSE IF ViewErr(hasRecord) # ""
         THEN IF ViewErr(hasRecord) = "Not found"
              THEN StatusNotFound ELSE StatusInternalServerError
         ELSE StatusOK

\* GET /build/{id}
HandleGetBuild ==
    /\ \E idp \in IdParams :
         LET buildID == IF AtoiErr(idp) THEN 0 ELSE ByteToInt(idp)
             hasConfig == buildID \in configFiles
             hasRecord == buildID \in historyKeys IN
         resp' = [code |-> HandleGetBuildCode(idp, hasConfig, hasRecord),
                  idOk |-> ~AtoiErr(idp), config |-> hasConfig, record |-> hasRecord]
    /\ UNCHANGED <<count, calls, configFiles, pendingBuilds, hooksLaunched, updatesSent,
                   historyKeys>>
    /\ UNCHANGED <<mainVars, logVars>>

NextFactory ==
    \/ \E c \in Callers : CreateBuildCount(c)
    \/ \E c \in Callers : CreateBuildDirs(c)
    \/ \E c \in Callers : CreateBuildPending(c)
    \/ \E c \in Callers : CreateBuildUpdate(c)
    \/ \E c \in Callers : CreateBuildStore(c)
    \/ HandleGetBuild

SpecFactory == InitFactory /\ [][NextFactory]_vars

\* ================================================= runTask, line by line
\* one runTask from the start of its command: the command writes lines to
\* its stdout and stderr, the streaming goroutine selects over taskCmd.Stdout,
\* taskCmd.Stderr and b.abortedChannel, and every line goes through
\* ProcessLogEntry into the bufio.Writer of the task log and a build:log message

Streams == {"stdout", "stderr"}
CommandEntry == [src |-> "command", n |-> 0]
AbortedEntry == [src |-> "Aborted.", n |-> 0]
OpenStream == [buf |-> <<>>, closed |-> FALSE, isNil |-> FALSE]

\* the state when the command has been started: its text is the first entry
InitLog ==
    /\ MainIdle
    /\ FactoryIdle
    /\ emit \in SeqsUpTo(Streams, MaxLines)
    /\ emitted = 0
    /\ Stdout = OpenStream
    /\ Stderr = OpenStream
    /\ bw = <<CommandEntry>>
    /\ file = <<>>
    /\ logMsgs = <<CommandEntry>>
    /\ taskProc = "run"
    /\ abortSend = "none"
    /\ rtpc = "loop"

\* ProcessLogEntry: buffer.WriteString(pline), which writes the buffer through
\* to the file when it is full, and BroadcastChannel <- &msg
ProcessLogEntry(line) ==
    /\ \E full \in BOOLEAN :
         IF full
         THEN file' = file \o bw /\ bw' = <<line>>
         ELSE bw' = Append(bw, line) /\ UNCHANGED file
    /\ logMsgs' = Append(logMsgs, line)

\* the command writes its next line; the line is queued on its stream's channel
CmdWrite ==
    /\ taskProc = "run"
    /\ emitted < Len(emit)
    /\ emitted' = emitted + 1
    /\ LET line == [src |-> emit[emitted + 1], n |-> emitted + 1] IN
         IF emit[emitted + 1] = "stdout"
         THEN Stdout' = [Stdout EXCEPT !.buf = Append(@, line)] /\ UNCHANGED Stderr
         ELSE Stderr' = [Stderr EXCEPT !.buf = Append(@, line)] /\ UNCHANGED Stdout
    /\ UNCHANGED <<emit, bw, file, logMsgs, taskProc, abortSend, rtpc>>
    /\ UNCHANGED <<mainVars, factoryVars>>

\* the command ends by itself after its last line
CmdDone ==
    /\ taskProc = "run"
    /\ emitted = Len(emit)
    /\ taskProc' = "exit"
    /\ UNCHANGED <<emit, emitted, Stdout, Stderr, bw, file, logMsgs, abortSend, rtpc>>
    /\ UNCHANGED <<mainVars, factoryVars>>

\* the command has ended or was stopped: its streams are closed
CmdClose ==
    /\ taskProc # "run"
    /\ \E st \in Streams :
         IF st = "stdout"
         THEN ~Stdout.closed /\ Stdout' = [Stdout EXCEPT !.closed = TRUE] /\ UNCHANGED Stderr
         ELSE ~Stderr.closed /\ Stderr' = [Stderr EXCEPT !.closed = TRUE] /\ UNCHANGED Stdout
    /\ UNCHANGED <<emit, emitted, bw, file, logMsgs, taskProc, abortSend, rtpc>>
    /\ UNCHANGED <<mainVars, factoryVars>>

\* case line, open := <-taskCmd.Stdout
RecvStdout ==
    /\ rtpc = "loop"
    /\ ~Stdout.isNil
    /\ IF Stdout.buf # <<>>
       THEN /\ ProcessLogEntry(Head(Stdout.buf))
            /\ Stdout' = [Stdout EXCEPT !.buf = Tail(@)]
       ELSE /\ Stdout.closed
            /\ Stdout' = [Stdout EXCEPT !.isNil = TRUE]
            /\ UNCHANGED <<bw, file, logMsgs>>
    /\ UNCHANGED <<emit, emitted, Stderr, taskProc, abortSend, rtpc>>
    /\ UNCHANGED <<mainVars, factoryVars>>

\* case line, open := <-taskCmd.Stderr
RecvStderr ==
    /\ rtpc = "loop"
    /\ ~Stderr.isNil
    /\ IF Stderr.buf # <<>>
       THEN /\ ProcessLogEntry(Head(Stderr.buf))
            /\ Stderr' = [Stderr EXCEPT !.buf = Tail(@)]
       ELSE /\ Stderr.closed
            /\ Stderr' = [Stderr EXCEPT !.isNil = TRUE]
            /\ UNCHANGED <<bw, file, logMsgs>>
    /\ UNCHANGED <<emit, emitted, Stdout, taskProc, abortSend, rtpc>>
    /\ UNCHANGED <<mainVars, factoryVars>>

\* Queue.Abort of the running build: the caller blocks in abortedChannel <- true
AbortRequest ==
    /\ abortSend = "none"
    /\ rtpc = "loop"
    /\ abortSend' = "sending"
    /\ UNCHANGED <<emit, emitted, Stdout, Stderr, bw, file, logMsgs, taskProc, rtpc>>
    /\ UNCHANGED <<mainVars, factoryVars>>

\* an abort after which the streaming goroutine returns at once
RecvAbort_Return ==
    /\ rtpc = "loop"
    /\ ~(Stdout.isNil /\ Stderr.isNil)
    /\ abortSend = "sending"
    /\ abortSend' = "received"
    /\ ProcessLogEntry(AbortedEntry)
    /\ taskProc' = IF taskProc = "run" THEN "stopped" ELSE taskProc
    /\ Stdout' = [Stdout EXCEPT !.isNil = TRUE]
    /\ Stderr' = [Stderr EXCEPT !.isNil = TRUE]
    /\ UNCHANGED <<emit, emitted, rtpc>>
    /\ UNCHANGED <<mainVars, factoryVars>>

\* case toAbort := <-b.abortedChannel: the entry "Aborted.", taskCmd.Stop(),
\* b.aborted = true; the loop goes on
RecvAbort ==
    /\ rtpc = "loop"
    /\ ~(Stdout.isNil /\ Stderr.isNil)
    /\ abortSend = "sending"
    /\ abortSend' = "received"
    /\ ProcessLogEntry(AbortedEntry)
    /\ taskProc' = IF taskProc = "run" THEN "stopped" ELSE taskProc
    /\ UNCHANGED <<emit, emitted, Stdout, Stderr, rtpc>>
    /\ UNCHANGED <<mainVars, factoryVars>>

\* taskCmd.Stdout == nil and taskCmd.Stderr == nil: the loop ends, doneChan is closed
StreamsDone ==
    /\ rtpc = "loop"
    /\ Stdout.isNil /\ Stderr.isNil
    /\ rtpc' = "done"
    /\ UNCHANGED <<emit, emitted, Stdout, Stderr, bw, file, logMsgs, taskProc, abortSend>>
    /\ UNCHANGED <<mainVars, factoryVars>>

\* <-taskCmd.Start() and <-doneChan have returned: runTask returns, and its
\* deferred function flushes the writer and closes the file
RunTaskFlush ==
    /\ rtpc = "done"
    /\ taskProc # "run"
    /\ file' = file \o bw
    /\ bw' = <<>>
    /\ rtpc' = "returned"
    /\ UNCHANGED <<emit, emitted, Stdout, Stderr, logMsgs, taskProc, abortSend>>
    /\ UNCHANGED <<mainVars, factoryVars>>

NextLog ==
    \/ CmdWrite
    \/ CmdDone
    \/ CmdClose
    \/ RecvStdout
    \/ RecvStderr
    \/ AbortRequest
    \/ RecvAbort
    \/ StreamsDone
    \/ RunTaskFlush

SpecLog == InitLog /\ [][NextLog]_vars

\* ------------------------------------------------------------ observations
Range(q) == {q[i] : i \in DOMAIN q}
Count(q, s) == Cardinality({i \in DOMAIN q : q[i] = s})

\* q without the immediate repetitions of a value
Collapse(q) ==
    LET keep == {i \in DOMAIN q : i = 1 \/ q[i] # q[i - 1]}
        nth(n) == CHOOSE i \in keep : Cardinality({j \in keep : j <= i}) = n
    IN [n \in 1..Cardinality(keep) |-> q[nth(n)]]

Rank(s) == CASE s = StatusPending -> 1 [] s = StatusRunning -> 2 [] OTHER -> 3

\* pending -> running -> terminal, or a prefix of it
IsPathPrefix(q) ==
    /\ Len(q) <= 3
    /\ Len(q) >= 1 => q[1] = StatusPending
    /\ Len(q) >= 2 => q[2] = StatusRunning
    /\ Len(q) >= 3 => q[3] \in Terminal

\* starts at pending and only moves forward; running may be skipped by aborted
IsForwardPath(q) ==
    /\ Len(q) >= 1 => q[1] = StatusPending
    /\ \A i \in 1..(Len(q) - 1) : Rank(q[i]) < Rank(q[i + 1])
    /\ \A i \in 1..(Len(q) - 1) :
         q[i] = StatusPending /\ q[i + 1] \in Terminal => q[i + 1] = StatusAborted

MainTasks == {i \in 1..NTasks : Job.Tasks[i].Kind = KindMain}
HookTasks == (1..NTasks) \ MainTasks
TasksOfKind(k) == {i \in 1..NTasks : Job.Tasks[i].Kind = k}
TaskStatus(i) == Job.Tasks[i].Status
RunningMain == {i \in MainTasks : TaskStatus(i) = StatusRunning}
BuildDone == pc[BuildThread] = "done"

\* ------------------------------------------------------------------ claims

\* C1 as stated: the statuses a build takes, and the statuses its build:update
\* messages carry, form a prefix of pending -> running -> terminal
C1_Original == IsPathPrefix(statusLog) /\ IsPathPrefix(Collapse(bcastLog))

\* C1 amended: the statuses a build takes, and those its build:update
\* messages carry, start at pending and only move forward, through running to
\* one terminal status or, for a build aborted while queued, from pending
\* straight to aborted; a terminal status is entered at most once
C1_StatusForward == IsForwardPath(statusLog) /\ IsForwardPath(Collapse(bcastLog))

C1_Witness ==
    /\ BuildDone
    /\ statusLog = <<StatusPending, StatusAborted>>
    /\ bcastLog = <<StatusPending, StatusAborted>>

\* C2 as stated: each status is broadcast and written to the history store
\* exactly once per status change and at no other point (the writes are
\* counted while no transaction of the store has failed)
C2_Original ==
    dbFails = 0 =>
        \A s \in Range(statusLog) \cup Range(bcastLog) \cup Range(writeLog) :
            /\ Count(bcastLog, s) <= Count(statusLog, s)
            /\ Count(writeLog, s) <= Count(statusLog, s)
            /\ pc[BuildThread] \in {"created", "done"} =>
                 /\ Count(bcastLog, s) = Count(statusLog, s)
                 /\ Count(writeLog, s) = Count(statusLog, s)

\* C2 amended: every call of SetBuildStatus sends exactly one build:update
\* message of its own, when it returns; Start sends one more with status
\* running before each main task and one after each main task that finished;
\* every message sent is followed by exactly one history-store write, which
\* stores the record unless the store's transaction fails
C2_BroadcastsAndWrites ==
    /\ pc[BuildThread] \in {"created", "done"} =>
         \A s \in {StatusPending} \cup Terminal :
             Count(bcastLog, s) = Count(statusLog, s)
    /\ BuildDone /\ StatusRunning \in Range(statusLog) =>
         Count(bcastLog, StatusRunning) =
             Count(statusLog, StatusRunning)
             + Cardinality({i \in MainTasks : TaskStatus(i) # NoStatus})
             + Cardinality({i \in MainTasks : TaskStatus(i) = StatusFinished})
    /\ pc[BuildThread] # "bu_db" => Len(writeLog) + dbFails = Len(bcastLog)
    /\ pc[BuildThread] = "bu_db" => Len(writeLog) + dbFails + 1 = Len(bcastLog)
    /\ \A s \in Range(writeLog) : Count(writeLog, s) <= Count(bcastLog, s)

C2_Witness ==
    /\ BuildDone
    /\ Count(statusLog, StatusRunning) = 1
    /\ Count(bcastLog, StatusRunning) = 3
    /\ Count(writeLog, StatusRunning) = 3

\* C3: whenever a build:update message with status S has been sent, the
\* history store holds a record of the build with status S
C3_WriteBeforeBroadcast ==
    lastMsg # NoRecord => ReadBack # NoRecord /\ ReadBack.Status = lastMsg.Status

\* C4: no task of kind running or main has started before every task of kind
\* pending has ended
C4_PendingHooksFirst ==
    \A i \in MainTasks \cup TasksOfKind(StatusRunning) :
        TaskStatus(i) # NoStatus =>
            \A j \in TasksOfKind(StatusPending) : TaskStatus(j) \in Terminal

\* C5: main tasks run in declaration order, each started only after all
\* earlier ones finished; the build that Start ran ends failed when a main
\* task failed, aborted when one was aborted, and finished when all finished
C5_StartRunsMainTasks ==
    /\ \A i, j \in MainTasks :
         i < j /\ TaskStatus(j) # NoStatus => TaskStatus(i) = StatusFinished
    /\ Status \in Terminal /\ StatusRunning \in Range(statusLog) =>
         /\ Status = StatusFailed <=> \E i \in MainTasks : TaskStatus(i) = StatusFailed
         /\ Status = StatusAborted <=> \E i \in MainTasks : TaskStatus(i) = StatusAborted
         /\ Status = StatusFinished <=> \A i \in MainTasks : TaskStatus(i) = StatusFinished
    /\ BuildDone => Status \in Terminal

C5_Witness ==
    /\ BuildDone
    /\ Status = StatusFailed
    /\ \E i, j \in MainTasks :
         i < j /\ TaskStatus(i) = StatusFailed /\ TaskStatus(j) = NoStatus

\* C6 as stated: a build with main tasks whose status is running has exactly
\* one main task whose status is running
C6_Original ==
    Status = StatusRunning /\ MainTasks # {} => Cardinality(RunningMain) = 1

\* C6 amended: at most one main task of a build is running at any time, and
\* only while the build's status is running
C6_AtMostOneMain ==
    /\ Cardinality(RunningMain) <= 1
    /\ RunningMain # {} => Status = StatusRunning

C6_Witness ==
    \E i, j \in MainTasks :
        i < j /\ TaskStatus(i) = StatusFinished /\ TaskStatus(j) = StatusRunning
              /\ pc[BuildThread] = "rt_loop"

\* the job declares no pending hook: all its tasks run on the build's thread
NoPendingHooks == TasksOfKind(StatusPending) = {}

\* C7: however often Abort is called on a running build, the build enters one
\* terminal status, the abort stops at most one task, and once an abort has
\* taken effect no later caller stays blocked after the build has ended
\* (stated for the jobs without pending hooks and the manual aborts)
C7_AbortIdempotent ==
    NoPendingHooks /\ timer = "nil" =>
        /\ Cardinality({i \in DOMAIN statusLog : statusLog[i] \in Terminal}) <= 1
        /\ Cardinality({i \in 1..NTasks : cmds[i].gotAbort}) <= 1
        /\ BuildDone /\ pc[HookThread] = "done" /\ aborted => sending = 0

\* C8: a task that has ended is aborted exactly when its own runTask received
\* an abort signal, and otherwise finished exactly when its command exited 0
\* (stated for the jobs without pending hooks)
C8_TaskResult ==
    \A i \in 1..NTasks :
        NoPendingHooks /\ TaskStatus(i) \in Terminal =>
            /\ TaskStatus(i) = StatusAborted <=> cmds[i].gotAbort
            /\ ~cmds[i].gotAbort =>
                 (TaskStatus(i) = StatusFinished <=> cmds[i].proc = "exit0")

\* C9: the command of a hook task is never stopped by an abort, and no hook
\* task receives the abort signal
C9_HooksNotPreempted ==
    \A i \in HookTasks : cmds[i].proc # "killed" /\ ~cmds[i].gotAbort

\* C10: Duration is zero while the build is pending or running, is assigned
\* only once, from zero, in a terminal status, is set when SetBuildStatus
\* has returned from a terminal status, and never changes afterwards
C10_DurationOnce ==
    /\ [](Status \in {NoStatus, StatusPending, StatusRunning} => Duration = 0)
    /\ [](BuildDone => Duration > 0)
    /\ [][Duration' # Duration =>
            Duration = 0 /\ Duration' > 0 /\ Status \in Terminal /\ Status' = Status]_vars

C10_Witness == BuildDone /\ Status = StatusFinished /\ Duration > 0

\* C11: Artifacts is empty in every build whose status is not finished, so a
\* build that ends failed or aborted has no artifacts, and Artifacts changes
\* only in SetBuildStatus(StatusFinished), where CollectArtifacts runs
C11_ArtifactsOnlyFinished ==
    /\ [](Status # StatusFinished => Artifacts = 0)
    /\ [][Artifacts' # Artifacts =>
            Status = StatusFinished /\ arg = StatusFinished /\ pc[BuildThread] = "wait"]_vars

\* a finished build with a collected artifact
C11_Witness == BuildDone /\ Status = StatusFinished /\ Artifacts > 0

\* C12: in every build:update message sent, each task's duration is >= 0 and
\* is set (non-zero) exactly when the task's status is terminal
C12_TaskDuration ==
    lastMsg # NoRecord =>
        \A i \in DOMAIN lastMsg.Tasks :
            /\ lastMsg.Tasks[i].Duration >= 0
            /\ lastMsg.Tasks[i].Duration # 0 <=> lastMsg.Tasks[i].Status \in Terminal

C16_TimeoutAborts ==
    /\ StartedAt # 0 /\ Job.Timeout # "" /\ ~ParseDurationErr(Job.Timeout) => timer # "nil"
    /\ firedDuring # 0 =>
          /\ TaskStatus(firedDuring) \in Terminal => TaskStatus(firedDuring) = StatusAborted
          /\ BuildDone => Status = StatusAborted

\* C20: Cleanup is never performed outside a terminal status and at most
\* once; when SetBuildStatus has returned from a terminal status it has been
\* performed exactly once; it takes the build out of the Queue's active set,
\* and every Remove it calls is directly followed by a Take
C20_CleanupOnce ==
    /\ qCalls # <<>> => Status \in Terminal /\ inQ \notin {"queued", "running"}
    /\ Count(qCalls, "Remove") <= 1
    /\ BuildDone => Count(qCalls, "Remove") = 1
    /\ \A i \in DOMAIN qCalls :
          qCalls[i] = "Remove" => i < Len(qCalls) /\ qCalls[i + 1] = "Take"

\* a build that ran and ended: removed from the active set, then Take
C20_Witness ==
    /\ BuildDone /\ Status = StatusFailed /\ inQ = "removed"
    /\ qCalls = <<"Remove", "Take">>

\* the calls of CreateBuild that returned a Build, and the IDs of these builds
Made == {c \in Callers : calls[c].pc = "returned" /\ calls[c].ret.build # 0}
MadeIDs == {calls[c].ret.build : c \in Made}
NoCallInProgress == \A c \in Callers : calls[c].pc \in {"count", "returned"}

\* C13: whenever no call of CreateBuild is in progress, the builds created so
\* far have the IDs 1, 2, 3, ... without duplicates and without gaps
C13_DenseIDs ==
    NoCallInProgress =>
        /\ Cardinality(MadeIDs) = Cardinality(Made)
        /\ MadeIDs = 1..Cardinality(Made)

\* the calls of CreateBuild in which a filesystem step failed
FsFailed == {c \in Callers : calls[c].err.op \in Range(FsSteps)}

\* C14: a call of CreateBuild in which a filesystem step failed has returned
\* no Build and the very error of that step; its ID was never set pending,
\* no pending hook tasks were started for it, and no build:update message and
\* no history record exist for it
C14_FsFailureAborts ==
    \A c \in FsFailed :
        /\ calls[c].pc = "returned"
        /\ calls[c].ret = [build |-> 0, err |-> calls[c].err]
        /\ calls[c].err = [op |-> FsSteps[calls[c].step], id |-> calls[c].ID]
        /\ calls[c].ID \notin pendingBuilds \cup hooksLaunched \cup updatesSent \cup historyKeys

\* writing the build config copy failed for one call while another call made
\* its build
C14_Witness ==
    /\ \E c \in FsFailed : calls[c].step = Len(FsSteps) /\ calls[c].ret.build = 0
    /\ Made # {}

\* C18: HandleGetBuild answers 404 exactly when the id is a number, the
\* build's config can be loaded and the history store holds no record of it
C18_NotFound ==
    resp # NoResponse =>
        (resp.code = StatusNotFound <=> resp.idOk /\ resp.config /\ ~resp.record)

\* the lines of the command among the entries of a log, in the log's order
IsCmdLine(l) == l.src \in Streams
CmdLines(q) == SelectSeq(q, IsCmdLine)
InEmissionOrder(q) == \A i, j \in DOMAIN q : i < j => q[i].n < q[j].n

\* C17: the lines of the command are sent as build:log messages, and written
\* to the task log, in the order in which the command wrote them
C17_LogOrder ==
    /\ InEmissionOrder(CmdLines(logMsgs))
    /\ InEmissionOrder(CmdLines(file \o bw))

C21_NoMainAfterAbort ==
    [][\A i \in MainTasks : cmds[i].proc = "none" /\ cmds'[i].proc = "run" => ~aborted]_vars

\* C22: whenever Cleanup has removed the build from the Queue's active set,
\* the record read back from the history store shows the build's terminal
\* status, its Duration and its Artifacts (no transaction of the store failed)
C22_HistoryBeforeRemove ==
    inQ = "removed" /\ dbFails = 0 =>
        /\ ReadBack # NoRecord
        /\ ReadBack.Status = Status /\ Status \in Terminal
        /\ ReadBack.Duration = Duration
        /\ ReadBack.Artifacts = Artifacts

\* C23: when the build has ended and no task of it runs any more, the timer's
\* goroutine has ended or can still take a step: it is not left waiting on
\* the stopped timer's channel or in the send of the abort
C23_TimerGoroutineEnds ==
    BuildDone /\ pc[HookThread] = "done" /\ timer \notin {"nil", "done"} =>
        ENABLED (TimerFire \/ TimerAbort)

====
